---- MODULE Spec2Model ----
(***************************************************************************)
(* Aurelius (src/aurelius.py): the interactive calibration sweep that      *)
(* forges the hearing profile, and the live enhancement session that loads *)
(* the profile document, prepares the gain curve and equalises every block *)
(* the audio transport delivers.  One behaviour is one invocation of the   *)
(* script, in mode "calibrate" or "run", on a profile document that may or *)
(* may not exist already.                                                  *)
(***************************************************************************)
EXTENDS Integers, Sequences, FiniteSets, TLC

VARIABLES
    mode,                   \* args.mode
    pc,                     \* position of the main thread
    doc,                    \* the file PROFILE_NAME on disk
    writes,                 \* number of times the file was written
    reads,                  \* number of times the file was opened for reading
    profile,                \* self.profile
    gainsSet,               \* whether the attribute self.gains exists
    gains,                  \* self.gains, one entry per rfft bin
    hearing_thresholds,     \* the dict of run_calibration
    fi,                     \* index of freq in HEARING_TEST_FREQUENCIES
    amplitude_db,           \* loop variable of the amplitude sweep
    min_audible_amplitude,  \* <<>> is None, <<v>> is the value v
    transcript,             \* the tones played and the answers given, in order
    steps,                  \* tone/response steps done in this run
    console,                \* the banners, guidance, reports and errors printed
    streamOpen,             \* the sd.Stream context is entered
    opens,                  \* number of times a stream was opened
    callbacks,              \* number of audio_callback invocations
    indata,                 \* input block of the last callback
    outdata,                \* output block of the last callback
    status,                 \* status flag of the last callback
    exitCode                \* exit status of the process, read at pc = "exited"

vars == <<mode, pc, doc, writes, reads, profile, gainsSet, gains,
          hearing_thresholds, fi, amplitude_db, min_audible_amplitude,
          transcript, steps,
          console, streamOpen, opens, callbacks, indata, outdata, status,
          exitCode>>

calVars == <<hearing_thresholds, fi, amplitude_db, min_audible_amplitude,
             transcript, steps>>

runVars == <<gainsSet, gains, streamOpen, opens, callbacks, indata, outdata,
             status>>

-----------------------------------------------------------------------------
(* Bounds of the model *)

\* frequencies at which the listener may miss at least one tone
MaxImpaired == 1

\* blocks the transport delivers in one session
MaxBlocks == 2

-----------------------------------------------------------------------------
(* 1. Core configuration *)

HEARING_TEST_FREQUENCIES == <<250, 500, 1000, 2000, 4000, 6000, 8000>>

SAMPLE_RATE == 44100

BLOCK_SIZE == 1024

\* range(-60, 1, 5)
AMP_START_DB == -60

AMP_STOP_DB == 1

AMP_STEP_DB == 5

max_gain_db == 30

-----------------------------------------------------------------------------
(* Python values *)

\* a dict is the sequence of its <<key, value>> items in insertion order
DictValues(d) == [i \in 1..Len(d) |-> d[i][2]]

HasKey(d, k) == \E i \in 1..Len(d) : d[i][1] = k

DictGet(d, k) == d[CHOOSE i \in 1..Len(d) : d[i][1] = k][2]

\* d[k] = v: an existing key keeps its place, a new key is appended
DictSet(d, k, v) ==
    IF HasKey(d, k)
    THEN [i \in 1..Len(d) |-> IF d[i][1] = k THEN <<k, v>> ELSE d[i]]
    ELSE Append(d, <<k, v>>)

Digits == <<"0", "1", "2", "3", "4", "5", "6", "7", "8", "9">>

\* str(n) of a non-negative int: its decimal digits
RECURSIVE Str(_)
Str(n) == IF n < 10 THEN <<Digits[n + 1]>>
          ELSE Append(Str(n \div 10), Digits[(n % 10) + 1])

IsDigit(c) == \E i \in 1..10 : Digits[i] = c

DigitValue(c) == (CHOOSE i \in 1..10 : Digits[i] = c) - 1

\* float(s) succeeds on a non-empty string of decimal digits
FloatParses(s) == Len(s) > 0 /\ \A i \in 1..Len(s) : IsDigit(s[i])

RECURSIVE ParseFloat(_)
ParseFloat(s) ==
    IF Len(s) = 0 THEN 0
    ELSE 10 * ParseFloat(SubSeq(s, 1, Len(s) - 1)) + DigitValue(s[Len(s)])

\* str.lower() on the characters the listener types
LowerChar(c) == IF c = "Y" THEN "y" ELSE IF c = "N" THEN "n" ELSE c

Lower(s) == [i \in 1..Len(s) |-> LowerChar(s[i])]

\* 'y' in response
Heard(r) == \E i \in 1..Len(r) : r[i] = "y"

PyMin(a, b) == IF b < a THEN b ELSE a

PyMax(a, b) == IF b > a THEN b ELSE a

-----------------------------------------------------------------------------
(* The environment *)

\* what the listener may type at the prompt
Responses == {<<"y">>, <<"n">>, <<"Y">>, <<>>}

\* what ollama.chat may do: answer, or raise
GuidanceOutcomes == {"guidance_text", "guidance_error"}

NoneProfile == [isNone |-> TRUE, items |-> <<>>]

DictProfile(items) == [isNone |-> FALSE, items |-> items]

Missing == [exists |-> FALSE, parses |-> FALSE, items |-> <<>>]

Unparsable == [exists |-> TRUE, parses |-> FALSE, items |-> <<>>]

Document(items) == [exists |-> TRUE, parses |-> TRUE, items |-> items]

-----------------------------------------------------------------------------
(* 2. The Meta-Mind *)

\* get_response returns the content, or the error string when the call raises
get_response(outcome) ==
    IF outcome = "guidance_text" THEN "guidance_text" ELSE "guidance_error"

-----------------------------------------------------------------------------
(* 3. Calibration *)

freq == HEARING_TEST_FREQUENCIES[fi]

\* frequencies whose recorded sweep had at least one tone missed
Impaired == {i \in 1..Len(hearing_thresholds) :
                hearing_thresholds[i][2] # AMP_START_DB}

\* a tone of the sweep under way was missed: the level has moved on
MissedInSweep == amplitude_db # AMP_START_DB

\* an amplitude loop that goes on until a tone is heard, however loud
SweepEndsOnlyWhenHeard(heard, db) == heard

\* the amplitude loop without the break of line 87
SweepEndsNoBreak(heard, db) == db + AMP_STEP_DB >= AMP_STOP_DB

\* line 72 and line 87: the amplitude loop is left on a heard tone (break),
\* or when range(-60, 1, 5) is exhausted
SweepEnds(heard, db) == heard \/ db + AMP_STEP_DB >= AMP_STOP_DB

MayMiss == MissedInSweep \/ Cardinality(Impaired) < MaxImpaired

\* no answer taken for the quietest level instead of 0
RecordedThresholdQuietest(m) == IF m = <<>> THEN AMP_START_DB ELSE m[1]

\* the threshold stored for a frequency once its sweep is over
RecordedThreshold(m) == IF m = <<>> THEN 0 ELSE m[1]

\* the gain without its cap
ProfileGainUncapped(threshold) == PyMax(0, -threshold)

\* the gain taken from the threshold itself, not from its inverse
ProfileGainNotInverted(threshold) == PyMax(0, PyMin(max_gain_db, threshold))

\* gain of one frequency of the profile
ProfileGain(threshold) == PyMax(0, PyMin(max_gain_db, -threshold))

BuildProfile(thresholds) ==
    [i \in 1..Len(thresholds) |->
        <<Str(thresholds[i][1]), ProfileGain(thresholds[i][2])>>]

\* lines 61-65 with a get_response that lets the failure of the service out
GuideCalibrationStartRaises ==
    /\ pc = "main"
    /\ mode = "calibrate"
    /\ \E o \in GuidanceOutcomes :
          IF o = "guidance_text"
          THEN /\ console' = console \cup {"calibration_banner", get_response(o)}
               /\ pc' = "press_enter"
               /\ UNCHANGED exitCode
          ELSE /\ console' = console \cup {"calibration_banner"}
               /\ pc' = "exited"
               /\ exitCode' = 1
    /\ UNCHANGED <<mode, doc, writes, reads, profile, calVars, runVars>>

\* lines 61-65: banner, guidance text, wait for Enter
GuideCalibrationStart ==
    /\ pc = "main"
    /\ mode = "calibrate"
    /\ \E o \in GuidanceOutcomes :
          console' = console \cup {"calibration_banner", get_response(o)}
    /\ pc' = "press_enter"
    /\ UNCHANGED <<mode, doc, writes, reads, profile, calVars, runVars, exitCode>>

\* lines 65-67: Enter is pressed, the thresholds start empty
PressEnter ==
    /\ pc = "press_enter"
    /\ hearing_thresholds' = <<>>
    /\ fi' = 1
    /\ pc' = "next_freq"
    /\ UNCHANGED <<mode, doc, writes, reads, profile, amplitude_db,
                   min_audible_amplitude, transcript, steps, console,
                   runVars, exitCode>>

\* a frequency loop that does not start the amplitude loop again: the sweep of
\* the next frequency goes on at the level the last one ended with
NextFrequencyKeepsLevel ==
    /\ pc = "next_freq"
    /\ IF fi <= Len(HEARING_TEST_FREQUENCIES)
       THEN /\ min_audible_amplitude' = <<>>
            /\ amplitude_db' = amplitude_db
            /\ pc' = "play"
       ELSE /\ pc' = "forge"
            /\ UNCHANGED <<min_audible_amplitude, amplitude_db>>
    /\ UNCHANGED <<mode, doc, writes, reads, profile, hearing_thresholds, fi,
                   transcript, steps, console, runVars, exitCode>>

\* lines 68-72: head of the frequency loop and of the amplitude loop
NextFrequency ==
    /\ pc = "next_freq"
    /\ IF fi <= Len(HEARING_TEST_FREQUENCIES)
       THEN /\ min_audible_amplitude' = <<>>
            /\ amplitude_db' = AMP_START_DB
            /\ pc' = "play"
       ELSE /\ pc' = "forge"
            /\ UNCHANGED <<min_audible_amplitude, amplitude_db>>
    /\ UNCHANGED <<mode, doc, writes, reads, profile, hearing_thresholds, fi,
                   transcript, steps, console, runVars, exitCode>>

\* lines 73-81: synthesise the tone, play it, wait until it is over
PlayTone ==
    /\ pc = "play"
    /\ transcript' = Append(transcript,
           [kind |-> "tone", freq |-> freq, db |-> amplitude_db])
    /\ pc' = "ask"
    /\ UNCHANGED <<mode, doc, writes, reads, profile, hearing_thresholds, fi,
                   amplitude_db, min_audible_amplitude, steps,
                   console, runVars, exitCode>>

\* lines 83-87 and the loop step of line 72
Respond ==
    /\ pc = "ask"
    /\ \E r \in Responses :
        /\ Heard(Lower(r)) \/ MayMiss
        /\ transcript' = Append(transcript,
               [kind |-> "response", freq |-> freq, db |-> amplitude_db,
                heard |-> Heard(Lower(r))])
        /\ steps' = steps + 1
        /\ IF Heard(Lower(r))
           THEN min_audible_amplitude' = <<amplitude_db>>
           ELSE UNCHANGED min_audible_amplitude
        /\ IF SweepEnds(Heard(Lower(r)), amplitude_db)
           THEN /\ amplitude_db' = amplitude_db
                /\ pc' = "record"
           ELSE /\ amplitude_db' = amplitude_db + AMP_STEP_DB
                /\ pc' = "play"
    /\ UNCHANGED <<mode, doc, writes, reads, profile, hearing_thresholds, fi,
                   console, runVars, exitCode>>

\* lines 89-93 with the mapping made anew for each frequency
RecordThresholdAnew ==
    /\ pc = "record"
    /\ hearing_thresholds' =
          DictSet(<<>>, freq, RecordedThreshold(min_audible_amplitude))
    /\ fi' = fi + 1
    /\ pc' = "next_freq"
    /\ UNCHANGED <<mode, doc, writes, reads, profile, amplitude_db,
                   min_audible_amplitude, transcript, steps, console, runVars,
                   exitCode>>

\* lines 89-93, and on to the next frequency
RecordThreshold ==
    /\ pc = "record"
    /\ hearing_thresholds' =
          DictSet(hearing_thresholds, freq,
                  RecordedThreshold(min_audible_amplitude))
    /\ fi' = fi + 1
    /\ pc' = "next_freq"
    /\ UNCHANGED <<mode, doc, writes, reads, profile, amplitude_db,
                   min_audible_amplitude, transcript, steps, console, runVars,
                   exitCode>>

\* lines 98-99
ForgeProfile ==
    /\ pc = "forge"
    /\ profile' = DictProfile(BuildProfile(hearing_thresholds))
    /\ pc' = "write"
    /\ UNCHANGED <<mode, doc, writes, reads, calVars, console, runVars, exitCode>>

\* lines 101-102
WriteProfile ==
    /\ pc = "write"
    /\ doc' = Document(profile.items)
    /\ writes' = writes + 1
    /\ pc' = "explain"
    /\ UNCHANGED <<mode, reads, profile, calVars, console, runVars, exitCode>>

\* line 107 keeping what the collaborator returned as the profile
ExplainResultsKeepsText ==
    /\ pc = "explain"
    /\ \E o \in GuidanceOutcomes :
          /\ console' = console \cup {"calibration_complete", get_response(o)}
          /\ profile' = DictProfile(<<<<IF o = "guidance_text"
                                            THEN <<"t", "e", "x", "t">>
                                            ELSE <<"e", "r", "r">>, 0>>>>)
    /\ pc' = "exited"
    /\ exitCode' = 0
    /\ UNCHANGED <<mode, doc, writes, reads, calVars, runVars>>

\* lines 104-107, then the script ends
ExplainResults ==
    /\ pc = "explain"
    /\ \E o \in GuidanceOutcomes :
          console' = console \cup {"calibration_complete", get_response(o)}
    /\ pc' = "exited"
    /\ exitCode' = 0
    /\ UNCHANGED <<mode, doc, writes, reads, profile, calVars, runVars>>

\* Ctrl+C at a prompt of the calibration, with the thresholds found so far
\* saved on the way out
InterruptCalibrationSaves ==
    /\ mode = "calibrate"
    /\ pc \in {"press_enter", "ask"}
    /\ doc' = Document(BuildProfile(hearing_thresholds))
    /\ writes' = writes + 1
    /\ pc' = "exited"
    /\ exitCode' = 130
    /\ UNCHANGED <<mode, reads, profile, calVars, console, runVars>>

\* Ctrl+C at a prompt of the calibration: nothing catches KeyboardInterrupt
\* (line 165), the script dies with the status of the signal
InterruptCalibration ==
    /\ mode = "calibrate"
    /\ pc \in {"press_enter", "ask"}
    /\ pc' = "exited"
    /\ exitCode' = 130
    /\ UNCHANGED <<mode, doc, writes, reads, profile, calVars, console, runVars>>

-----------------------------------------------------------------------------
(* 4. Live enhancement: preparing the gain curve *)

\* rfft bins of a block: BLOCK_SIZE/2 + 1 of them, bin k at k*SAMPLE_RATE/BLOCK_SIZE Hz
Bins == 0..(BLOCK_SIZE \div 2)

\* A decibel gain is kept exact, as the fraction <<n, d>> with d > 0.
\* np.interp(x, xp, fp) at the frequency of bin k.  xp holds whole Hz.
\* Order of the tests as in numpy: right of the last point, left of the
\* first, then the interval j with xp[j] <= x < xp[j+1].
InterpAtBin(k, xp, fp) ==
    LET n == Len(xp)
        x == k * SAMPLE_RATE                 \* x and xp, both times BLOCK_SIZE
        X(i) == xp[i] * BLOCK_SIZE
    IN  IF x > X(n) THEN <<fp[n], 1>>
        ELSE IF x < X(1) THEN <<fp[1], 1>>
        ELSE LET later == {i \in 2..n : x < X(i)}
                 j == IF later = {} THEN n
                      ELSE (CHOOSE i \in later : \A m \in later : i <= m) - 1
             IN  IF j = n \/ X(j) = x THEN <<fp[j], 1>>
                 ELSE LET den == (xp[j + 1] - xp[j]) * BLOCK_SIZE
                      IN  <<fp[j] * den + (fp[j + 1] - fp[j]) * (x - X(j)), den>>

\* line 124: np.ones_like(freqs), a gain of 1 (0 dB) in every bin
OnesCurve == [k \in Bins |-> <<0, 1>>]

\* lines 126-127 raise when a key is not a number, line 130 when there is no point
PrepareRaises(items) ==
    \/ \E i \in 1..Len(items) : ~FloatParses(items[i][1])
    \/ Len(items) = 0

\* lines 126-132: the curve, in dB; 10**(dB/20) is taken where a bin is used
GainCurve(items) ==
    LET profile_freqs == [i \in 1..Len(items) |-> ParseFloat(items[i][1])]
        profile_gains_db == DictValues(items)
    IN  [k \in Bins |-> InterpAtBin(k, profile_freqs, profile_gains_db)]

\* 1.0 in the fixed point of samples and linear gains
One == 1000

\* 10**(dB/20) in thousandths, for the whole multiples of 5 dB
LinearTable ==
    [d \in {-5, 0, 5, 10, 15, 20, 25, 30, 35} |->
        CASE d = -5 -> 562   [] d = 0 -> 1000   [] d = 5 -> 1778
          [] d = 10 -> 3162  [] d = 15 -> 5623  [] d = 20 -> 10000
          [] d = 25 -> 17783 [] d = 30 -> 31623 [] d = 35 -> 56234]

LinearGain(g) == LinearTable[g[1] \div g[2]]

-----------------------------------------------------------------------------
(* 4. Live enhancement: the callback *)

\* A block is BLOCK_SIZE samples.  The transport of the model delivers the
\* blocks that repeat a period of four samples, written as that period; their
\* spectrum is zero outside the bins 0, BLOCK_SIZE/4 and BLOCK_SIZE/2.
SampleLevels == {-2 * One, 0, 300}

Blocks == [1..4 -> SampleLevels]

SampleOf(block, n) == block[(n % 4) + 1]

\* rfft(indata[:, 0]): the three coefficients, in units of BLOCK_SIZE/4
rfft(x) ==
    [dc  |-> [re |-> x[1] + x[2] + x[3] + x[4], im |-> 0],
     mid |-> [re |-> x[1] - x[3], im |-> x[4] - x[2]],
     nyq |-> [re |-> x[1] - x[2] + x[3] - x[4], im |-> 0]]

\* fft_data *= self.gains
ApplyGains(c, g) ==
    LET g0 == LinearGain(g[0])
        g1 == LinearGain(g[BLOCK_SIZE \div 4])
        g2 == LinearGain(g[BLOCK_SIZE \div 2])
    IN  [dc  |-> [re |-> c.dc.re * g0,  im |-> c.dc.im * g0],
         mid |-> [re |-> c.mid.re * g1, im |-> c.mid.im * g1],
         nyq |-> [re |-> c.nyq.re * g2, im |-> c.nyq.im * g2]]

\* irfft(fft_data): one period of the output, back in thousandths
irfft(c) ==
    LET s(v) == v \div (4 * One)
    IN  <<s(c.dc.re + 2 * c.mid.re + c.nyq.re),
          s(c.dc.re - 2 * c.mid.im - c.nyq.re),
          s(c.dc.re - 2 * c.mid.re + c.nyq.re),
          s(c.dc.re + 2 * c.mid.im - c.nyq.re)>>

\* a clip that bounds the sample from above only
ClipAboveOnly(v) == IF v > One THEN One ELSE v

\* np.clip(v, -1.0, 1.0)
Clip(v) == IF v < -One THEN -One ELSE IF v > One THEN One ELSE v

\* lines 141-147: processed_audio
Equalize(block, g) == irfft(ApplyGains(rfft(block), g))

\* lines 141-150: what the callback writes to outdata
ProcessBlock(block, g) ==
    LET processed_audio == Equalize(block, g)
    IN  [i \in 1..4 |-> Clip(processed_audio[i])]

-----------------------------------------------------------------------------
(* 4. Live enhancement: the session *)

\* a load that takes a missing document for an empty one
LoadResultDefaultsEmpty(d) ==
    IF d.exists /\ ~d.parses THEN "JSONDecodeError" ELSE "ok"

\* lines 115-116: open() and json.load() on the document
LoadResult(d) ==
    IF ~d.exists THEN "FileNotFoundError"
    ELSE IF ~d.parses THEN "JSONDecodeError"
    ELSE "ok"

\* lines 111-120, and 171-172 of the main block when json.load raises
LoadProfile ==
    /\ pc = "main"
    /\ mode = "run"
    /\ IF LoadResult(doc) = "FileNotFoundError"
       THEN /\ console' = console \cup {"run_banner", "missing_profile_error"}
            /\ pc' = "exited"
            /\ exitCode' = 0
            /\ UNCHANGED profile
       ELSE IF LoadResult(doc) = "JSONDecodeError"
       THEN /\ console' = console \cup {"run_banner", "error_occurred"}
            /\ pc' = "exited"
            /\ exitCode' = 0
            /\ UNCHANGED profile
       ELSE /\ profile' = DictProfile(doc.items)
            /\ console' = console \cup {"run_banner", "loaded"}
            /\ pc' = "loaded"
            /\ UNCHANGED exitCode
    /\ reads' = reads + 1
    /\ UNCHANGED <<mode, doc, writes, calVars, runVars>>

\* lines 123-134, and 171-172 when the preparation raises
PrepareGains ==
    /\ pc = "loaded"
    /\ gainsSet' = TRUE
    /\ IF PrepareRaises(profile.items)
       THEN /\ gains' = OnesCurve
            /\ console' = console \cup {"error_occurred"}
            /\ pc' = "exited"
            /\ exitCode' = 0
       ELSE /\ gains' = GainCurve(profile.items)
            /\ console' = console \cup {"active"}
            /\ pc' = "prepared"
            /\ UNCHANGED exitCode
    /\ UNCHANGED <<mode, doc, writes, reads, profile, calVars, streamOpen, opens,
                   callbacks, indata, outdata, status>>

\* the stream opened as soon as the document is loaded, before lines 123-132
OpenStreamOnLoad ==
    /\ pc \in {"loaded", "prepared"}
    /\ streamOpen' = TRUE
    /\ opens' = opens + 1
    /\ pc' = "streaming"
    /\ UNCHANGED <<mode, doc, writes, reads, profile, calVars, gainsSet, gains,
                   callbacks, indata, outdata, status, console, exitCode>>

\* line 152: the stream is opened and started, or the transport refuses
OpenStream ==
    /\ pc = "prepared"
    /\ \E ok \in BOOLEAN :
          IF ok
          THEN /\ streamOpen' = TRUE
               /\ opens' = opens + 1
               /\ pc' = "streaming"
               /\ UNCHANGED <<console, exitCode>>
          ELSE /\ console' = console \cup {"error_occurred"}
               /\ pc' = "exited"
               /\ exitCode' = 0
               /\ UNCHANGED <<streamOpen, opens>>
    /\ UNCHANGED <<mode, doc, writes, reads, profile, calVars, gainsSet, gains,
                   callbacks, indata, outdata, status>>

\* a callback that sets the curve back to the flat one of line 124 once it has
\* used it
audio_callback_resets_gains ==
    /\ pc = "streaming"
    /\ streamOpen
    /\ callbacks < MaxBlocks
    /\ \E block \in Blocks, flag \in BOOLEAN :
        /\ indata' = block
        /\ status' = flag
        /\ console' = IF flag THEN console \cup {"status"} ELSE console
        /\ outdata' = ProcessBlock(block, gains)
    /\ gains' = OnesCurve
    /\ callbacks' = callbacks + 1
    /\ UNCHANGED <<mode, pc, doc, writes, reads, profile, calVars, gainsSet,
                   streamOpen, opens, exitCode>>

\* a callback that reports a flagged block and returns without processing it
audio_callback_skips_flagged ==
    /\ pc = "streaming"
    /\ streamOpen
    /\ callbacks < MaxBlocks
    /\ \E block \in Blocks, flag \in BOOLEAN :
        /\ indata' = block
        /\ status' = flag
        /\ console' = IF flag THEN console \cup {"status"} ELSE console
        /\ outdata' = IF flag THEN outdata ELSE ProcessBlock(block, gains)
    /\ callbacks' = callbacks + 1
    /\ UNCHANGED <<mode, pc, doc, writes, reads, profile, calVars, gainsSet, gains,
                   streamOpen, opens, exitCode>>

\* lines 136-150: the transport delivers a block, with or without a fault flag
audio_callback ==
    /\ pc = "streaming"
    /\ streamOpen
    /\ callbacks < MaxBlocks
    /\ \E block \in Blocks, flag \in BOOLEAN :
        /\ indata' = block
        /\ status' = flag
        /\ console' = IF flag THEN console \cup {"status"} ELSE console
        /\ outdata' = ProcessBlock(block, gains)
    /\ callbacks' = callbacks + 1
    /\ UNCHANGED <<mode, pc, doc, writes, reads, profile, calVars, gainsSet, gains,
                   streamOpen, opens, exitCode>>

\* the transport dies for good: no callback comes any more, the main thread
\* keeps sleeping in the loop of lines 153-154
TransportFault ==
    /\ pc = "streaming"
    /\ pc' = "faulted"
    /\ UNCHANGED <<mode, doc, writes, reads, profile, calVars, runVars, console,
                   exitCode>>

\* Ctrl+C with no handler for KeyboardInterrupt in the main block
StopSignalUncaught ==
    /\ pc \in {"streaming", "faulted"}
    /\ streamOpen' = FALSE
    /\ pc' = "exited"
    /\ exitCode' = 130
    /\ UNCHANGED <<mode, doc, writes, reads, profile, calVars, gainsSet, gains,
                   opens, callbacks, indata, outdata, status, console>>

\* Ctrl+C in the loop of lines 153-154: the with block closes the stream,
\* lines 169-170 report it, the script ends
StopSignal ==
    /\ pc \in {"streaming", "faulted"}
    /\ streamOpen' = FALSE
    /\ console' = console \cup {"stopped_by_user"}
    /\ pc' = "exited"
    /\ exitCode' = 0
    /\ UNCHANGED <<mode, doc, writes, reads, profile, calVars, gainsSet, gains,
                   opens, callbacks, indata, outdata, status>>

\* the states of the run session
SessionState ==
    CASE mode # "run" -> "None"
      [] mode = "run" /\ pc = "main" -> "Idle"
      [] mode = "run" /\ pc = "loaded" -> "Loading"
      [] mode = "run" /\ pc = "prepared" -> "ProfileLoaded"
      [] mode = "run" /\ pc = "streaming" -> "Streaming"
      [] mode = "run" /\ pc = "faulted" -> "Faulted"
      [] mode = "run" /\ pc = "exited" ->
            IF "stopped_by_user" \in console THEN "Stopped"
            ELSE IF "active" \in console THEN "Faulted"
            ELSE "LoadFailed"

-----------------------------------------------------------------------------

\* the profile of the end-to-end scenario
ScenarioProfile ==
    Document(<<<<Str(250), 20>>, <<Str(1000), 5>>, <<Str(8000), 15>>>>)

\* the same profile after a tool has written it back with its keys in the
\* order of their strings: "1000" < "250" < "8000"
StringSortedProfile ==
    Document(<<<<Str(1000), 5>>, <<Str(250), 20>>, <<Str(8000), 15>>>>)

\* calibration never reads the document: it finds none, or an older profile
CalibrateDocs == {Missing, ScenarioProfile}

\* the documents a run session may find: none, one that is no JSON, an empty
\* one, one with a key that is no number, and four profiles
InitialDocs ==
    {Missing, Unparsable, Document(<<>>),
     Document(<<<<Str(250), 20>>, <<<<"h", "z">>, 5>>>>),
     ScenarioProfile,
     StringSortedProfile,
     Document(BuildProfile([i \in 1..Len(HEARING_TEST_FREQUENCIES) |->
                  <<HEARING_TEST_FREQUENCIES[i], -5 * i>>])),
     Document(<<<<Str(500), 35>>, <<Str(4000), -5>>>>)}

Init ==
    /\ mode \in {"calibrate", "run"}
    /\ pc = "main"
    /\ doc \in IF mode = "calibrate" THEN CalibrateDocs ELSE InitialDocs
    /\ writes = 0
    /\ reads = 0
    /\ profile = NoneProfile
    /\ gainsSet = FALSE
    /\ gains = <<>>
    /\ hearing_thresholds = <<>>
    /\ fi = 1
    /\ amplitude_db = AMP_START_DB
    /\ min_audible_amplitude = <<>>
    /\ transcript = <<>>
    /\ steps = 0
    /\ console = {}
    /\ streamOpen = FALSE
    /\ opens = 0
    /\ callbacks = 0
    /\ indata = <<>>
    /\ outdata = <<>>
    /\ status = FALSE
    /\ exitCode = 0

Next ==
    \/ GuideCalibrationStart
    \/ PressEnter
    \/ NextFrequency
    \/ PlayTone
    \/ Respond
    \/ RecordThreshold
    \/ ForgeProfile
    \/ WriteProfile
    \/ ExplainResults
    \/ InterruptCalibration
    \/ LoadProfile
    \/ PrepareGains
    \/ OpenStream
    \/ audio_callback
    \/ TransportFault
    \/ StopSignal

Spec == Init /\ [][Next]_vars

-----------------------------------------------------------------------------
(* Properties of the calibration *)

Frequencies == {HEARING_TEST_FREQUENCIES[i] : i \in 1..Len(HEARING_TEST_FREQUENCIES)}

\* the part of the transcript that belongs to frequency f
SweepOf(f) == SelectSeq(transcript, LAMBDA e : e.freq = f)

\* the answers given for frequency f
AnswersOf(f) == SelectSeq(SweepOf(f), LAMBDA e : e.kind = "response")

Recorded(f) == HasKey(hearing_thresholds, f)

Threshold(f) == DictGet(hearing_thresholds, f)

\* positions of the heard answers among the answers for f
HeardAt(f) ==
    LET answers == AnswersOf(f)
    IN  {i \in 1..Len(answers) : answers[i].heard}

\* the sweep of f is over: f is no longer the frequency under test
SweepOver(f) == ~(pc \in {"play", "ask", "record"} /\ freq = f)

\* number of levels of range(-60, 1, 5)
SweepSteps == (AMP_STOP_DB - AMP_START_DB + AMP_STEP_DB - 1) \div AMP_STEP_DB

ClampTo(v, lo, hi) == IF v < lo THEN lo ELSE IF v > hi THEN hi ELSE v

ProfileBuilt == mode = "calibrate" /\ ~profile.isNone

\* C1: the threshold recorded for a frequency is the level of the first
\* heard answer of its sweep; after a heard answer nothing more is played or
\* asked at that frequency: the session goes on with the first tone of the
\* next frequency.
C1_FirstExceedance ==
    LET n == Len(transcript)
        heardAt == {i \in 1..n : transcript[i].kind = "response"
                                    /\ transcript[i].heard}
    IN  \A i \in heardAt :
            LET f == transcript[i].freq
            IN  /\ \A j \in 1..n : (j # i /\ transcript[j].freq = f) =>
                      /\ j < i
                      /\ j \notin heardAt
                /\ i < n =>
                      /\ transcript[i + 1].kind = "tone"
                      /\ transcript[i + 1].db = AMP_START_DB
                      /\ \E k \in 1..(Len(HEARING_TEST_FREQUENCIES) - 1) :
                            /\ f = HEARING_TEST_FREQUENCIES[k]
                            /\ transcript[i + 1].freq =
                                  HEARING_TEST_FREQUENCIES[k + 1]
                /\ SweepOver(f) => Recorded(f) /\ Threshold(f) = transcript[i].db

\* a finished run in which 1000 Hz was heard at the sixth level only
C1_Witness ==
    /\ pc = "exited" /\ exitCode = 0 /\ mode = "calibrate"
    /\ Len(AnswersOf(1000)) = 6
    /\ HeardAt(1000) = {6}
    /\ Threshold(1000) = -35

\* C2: every gain of the profile that is built and written is
\* clamp(-threshold, 0, 30) of the threshold of its frequency, so it lies in
\* 0..30; -45 gives 30, -10 gives 10, 5 gives 0.
C2_GainClamp ==
    /\ ProfileBuilt =>
          /\ Len(profile.items) = Len(hearing_thresholds)
          /\ \A i \in 1..Len(profile.items) :
                /\ profile.items[i][1] = Str(hearing_thresholds[i][1])
                /\ profile.items[i][2] =
                      ClampTo(-hearing_thresholds[i][2], 0, 30)
                /\ profile.items[i][2] \in 0..30
          /\ writes > 0 => doc = Document(profile.items)
    /\ ProfileGain(-45) = 30
    /\ ProfileGain(-10) = 10
    /\ ProfileGain(5) = 0

\* a written profile with a capped gain and an uncapped one
C2_Witness ==
    /\ ProfileBuilt /\ writes = 1
    /\ \E i, j \in 1..Len(profile.items) :
          /\ hearing_thresholds[i][2] = -60 /\ doc.items[i][2] = 30
          /\ hearing_thresholds[j][2] = -10 /\ doc.items[j][2] = 10

NeverHeard(f) ==
    /\ Recorded(f)
    /\ Len(AnswersOf(f)) = SweepSteps
    /\ HeardAt(f) = {}
    /\ \A i \in 1..SweepSteps :
          AnswersOf(f)[i].db = AMP_START_DB + (i - 1) * AMP_STEP_DB

\* C3: a frequency whose every level, -60 dB to 0 dB in steps of 5, was
\* answered not heard has the threshold 0 dB and the profile gain 0 dB.
C3_NeverHeardIsZero ==
    \A f \in Frequencies :
        NeverHeard(f) =>
            /\ Threshold(f) = 0
            /\ ProfileBuilt => DictGet(profile.items, Str(f)) = 0
            /\ (ProfileBuilt /\ writes > 0) => DictGet(doc.items, Str(f)) = 0

\* a finished run in which no tone of 2000 Hz was heard
C3_Witness ==
    /\ pc = "exited" /\ exitCode = 0 /\ mode = "calibrate"
    /\ NeverHeard(2000)
    /\ DictGet(doc.items, Str(2000)) = 0

\* ten answers not heard, then one heard, at 1000 Hz
TenMissesThenHeard ==
    /\ Recorded(1000)
    /\ Len(AnswersOf(1000)) = 11
    /\ HeardAt(1000) = {11}

\* C4 as stated: after ten answers not heard and one heard at 1000 Hz the
\* threshold is -5 dB and the gain 5 dB.
C4_AsStated ==
    TenMissesThenHeard =>
        /\ Threshold(1000) = -5
        /\ ProfileBuilt => DictGet(profile.items, Str(1000)) = 5

\* C4, amended: after ten answers not heard and one heard at 1000 Hz the
\* threshold is -10 dB, the eleventh level of the sweep, and the gain 10 dB.
C4_EleventhLevel ==
    TenMissesThenHeard =>
        /\ AnswersOf(1000)[11].db = -10
        /\ Threshold(1000) = -10
        /\ ProfileBuilt => DictGet(profile.items, Str(1000)) = 10

C4_Witness == TenMissesThenHeard /\ ProfileBuilt /\ writes = 1

-----------------------------------------------------------------------------
(* Properties of the run session *)

\* C5: every sample a callback writes to the output buffer lies in [-1, 1],
\* whatever the input block, the gain curve and the status flag were.
C5_OutputBound ==
    callbacks > 0 =>
        /\ DOMAIN outdata = DOMAIN indata
        /\ \A n \in 0..(BLOCK_SIZE - 1) :
              SampleOf(outdata, n) >= -One /\ SampleOf(outdata, n) <= One

\* a flagged block whose equalised samples leave [-1, 1] on both sides
C5_Witness ==
    /\ callbacks > 0 /\ status
    /\ \E i, j \in 1..4 :
          /\ Equalize(indata, gains)[i] > One /\ outdata[i] = One
          /\ Equalize(indata, gains)[j] < -One /\ outdata[j] = -One

\* C6: a run session that finds no profile document reports it and ends
\* without loading, preparing or streaming anything: no stream, no callback,
\* no gain curve, no profile in memory, no document written.
C6_MissingProfile ==
    (mode = "run" /\ ~doc.exists) =>
        /\ pc \in {"main", "exited"}
        /\ pc = "exited" => /\ "missing_profile_error" \in console
                            /\ SessionState = "LoadFailed"
        /\ opens = 0 /\ ~streamOpen /\ callbacks = 0
        /\ ~gainsSet /\ gains = <<>>
        /\ profile = NoneProfile
        /\ writes = 0

C6_Witness == mode = "run" /\ ~doc.exists /\ pc = "exited"

\* C7 as stated: a run that finds no profile document ends with an exit
\* status other than 0.
C7_MissingProfileExitsNonZero ==
    (mode = "run" /\ pc = "exited" /\ "missing_profile_error" \in console)
        => exitCode # 0

BadDocument == ~doc.exists \/ ~doc.parses \/ Len(doc.items) = 0

C8_State ==
    mode = "run" =>
        /\ SessionState = "ProfileLoaded" =>
              /\ doc.exists /\ doc.parses
              /\ profile = DictProfile(doc.items)
              /\ Len(profile.items) > 0
              /\ gainsSet
        /\ BadDocument =>
              /\ SessionState \notin {"ProfileLoaded", "Streaming"}
              /\ opens = 0 /\ ~streamOpen /\ callbacks = 0

C8_Step ==
    /\ (SessionState' = "Streaming" /\ SessionState # "Streaming")
          => SessionState = "ProfileLoaded"
    /\ opens' # opens
          => SessionState = "ProfileLoaded" /\ SessionState' = "Streaming"

\* C8: the session starts streaming from ProfileLoaded only, and is in
\* ProfileLoaded only with a document that parsed and is not empty; with a
\* missing, unparsable or empty document no stream is ever opened and no
\* callback ever runs.
C8_StreamingOnlyWithProfile == []C8_State /\ [][C8_Step]_vars

\* an empty document was loaded and the session is over
C8_Witness ==
    mode = "run" /\ doc = Document(<<>>) /\ pc = "exited" /\ "loaded" \in console

C9_Step ==
    callbacks' # callbacks =>
        /\ callbacks' = callbacks + 1
        /\ outdata' = [i \in 1..4 |-> ClampTo(Equalize(indata', gains)[i], -One, One)]
        /\ status' =>
              /\ "status" \in console'
              /\ SessionState' = "Streaming"
              /\ streamOpen' /\ opens' = opens
              /\ exitCode' = exitCode

C9_State ==
    /\ opens <= 1
    /\ (status /\ pc = "streaming" /\ callbacks < MaxBlocks)
          => ENABLED audio_callback

\* C9: a callback invoked with an error status prints the status, transforms
\* and delivers its block all the same and leaves the session streaming; the
\* block after it is processed like any other; no block is processed twice
\* and the stream is not opened again.
C9_TransportFault == []C9_State /\ [][C9_Step]_vars

\* a flagged block was followed by a block without a flag
C9_Witness ==
    /\ pc = "streaming" /\ callbacks = 2 /\ ~status /\ "status" \in console
    /\ outdata = ProcessBlock(indata, gains)

C10_Step ==
    /\ SessionState = "Streaming"
          => SessionState' \in {"Streaming", "Stopped", "Faulted"}
    /\ (pc = "streaming" /\ pc' = "exited") =>
          /\ SessionState' = "Stopped"
          /\ ~streamOpen'
          /\ exitCode' = 0
          /\ "stopped_by_user" \in console'
          /\ "error_occurred" \notin console'
          /\ UNCHANGED <<callbacks, indata, outdata>>

C10_State ==
    /\ (pc = "streaming" /\ callbacks < MaxBlocks) => ENABLED audio_callback
    /\ pc = "streaming" => streamOpen
    /\ SessionState = "Stopped" =>
          /\ ~streamOpen
          /\ ~ENABLED audio_callback
          /\ callbacks > 0 => outdata = ProcessBlock(indata, gains)

\* C10: while the session streams, callbacks are served, and it leaves
\* Streaming only by the stop signal or by a transport fault; the stop signal
\* closes the stream and ends the session in Stopped with status 0 and no
\* error report; after it no callback runs, and every block that was taken
\* was delivered whole.
C10_StreamingUntilStopped == []C10_State /\ [][C10_Step]_vars

C10_Witness == SessionState = "Stopped" /\ callbacks = MaxBlocks /\ opens = 1

-----------------------------------------------------------------------------
(* Properties of the run session: the gain curve *)

\* the stream has been opened in this session
StreamOpened == opens > 0

C11_State ==
    /\ (mode = "run" /\ pc = "prepared") =>
          /\ ~StreamOpened
          /\ gains = GainCurve(profile.items)
    /\ (mode = "run" /\ pc \in {"prepared", "streaming", "faulted"}) =>
          /\ gainsSet
          /\ profile = DictProfile(doc.items)
    /\ StreamOpened => gainsSet
    /\ callbacks > 0 => outdata = ProcessBlock(indata, gains)

C11_Step ==
    /\ gains' # gains =>
          /\ pc = "loaded"
          /\ ~gainsSet
          /\ ~StreamOpened /\ ~streamOpen /\ ~streamOpen'
          /\ UNCHANGED <<callbacks, indata, outdata>>
    /\ StreamOpened => UNCHANGED <<gains, gainsSet, profile>>
    /\ callbacks' # callbacks => UNCHANGED <<gains, gainsSet, profile, doc>>

\* C11: the gain curve is computed once in a run session, from the loaded
\* profile, before the stream is opened and outside the callback; afterwards
\* nothing changes it: every callback leaves the curve and the loaded profile
\* as they were, and every block is multiplied by that one curve.
C11_GainCurveFixed == []C11_State /\ [][C11_Step]_vars

\* two blocks were processed with a curve that is not the flat one
C11_Witness ==
    /\ pc = "streaming" /\ callbacks = 2
    /\ gains = GainCurve(ScenarioProfile.items)
    /\ gains # OnesCurve
    /\ outdata # indata

-----------------------------------------------------------------------------
(* Properties of the calibration: what the results depend on *)

\* the listener's answers so far, heard or not, in the order given
AnswerSequence ==
    LET answers == SelectSeq(transcript, LAMBDA e : e.kind = "response")
    IN  [i \in 1..Len(answers) |-> answers[i].heard]

\* the tones played so far
TonesPlayed ==
    LET tones == SelectSeq(transcript, LAMBDA e : e.kind = "tone")
    IN  [i \in 1..Len(tones) |-> <<tones[i].freq, tones[i].db>>]

\* what a sequence of answers alone determines: the tones played and the
\* thresholds recorded when the answers from position p on are given to a run
\* that is at level db of frequency number k
RECURSIVE Replay(_, _, _, _, _)
Replay(answers, p, k, db, acc) ==
    IF k > Len(HEARING_TEST_FREQUENCIES) THEN acc
    ELSE LET f == HEARING_TEST_FREQUENCIES[k]
             played == [acc EXCEPT !.tones = Append(@, <<f, db>>)]
             found(t) == [played EXCEPT !.thresholds = Append(@, <<f, t>>)]
         IN  IF p > Len(answers) THEN played
             ELSE IF answers[p]
                  THEN Replay(answers, p + 1, k + 1, AMP_START_DB, found(db))
             ELSE IF db + AMP_STEP_DB >= AMP_STOP_DB
                  THEN Replay(answers, p + 1, k + 1, AMP_START_DB, found(0))
             ELSE Replay(answers, p + 1, k, db + AMP_STEP_DB, played)

ReplayAll(answers) ==
    Replay(answers, 1, 1, AMP_START_DB, [tones |-> <<>>, thresholds |-> <<>>])

\* the profile that a threshold mapping determines
ProfileOf(thresholds) ==
    [i \in 1..Len(thresholds) |->
        <<Str(thresholds[i][1]), ClampTo(-thresholds[i][2], 0, max_gain_db)>>]

\* the run awaits an answer, or has swept every frequency and not been
\* interrupted
AtAnswerOrDone ==
    /\ mode = "calibrate"
    /\ \/ pc \in {"ask", "forge", "write", "explain"}
       \/ pc = "exited" /\ exitCode = 0

\* C12: the tones played, the thresholds and the profile are a function of the
\* listener's answers alone: replaying the answer sequence gives the tones
\* and thresholds of the run, and the profile built and written is the one
\* those thresholds determine, whatever the guidance collaborator returned at
\* the start or at the end.
C12_ResultsFollowAnswers ==
    AtAnswerOrDone =>
        LET r == ReplayAll(AnswerSequence)
        IN  /\ TonesPlayed = r.tones
            /\ hearing_thresholds = r.thresholds
            /\ ~profile.isNone =>
                  /\ Len(profile.items) = Len(r.thresholds)
                  /\ profile.items = ProfileOf(r.thresholds)
            /\ writes > 0 => doc = Document(ProfileOf(r.thresholds))

\* a finished run whose guidance failed both times and whose listener missed
\* tones at one frequency
C12_Witness ==
    /\ mode = "calibrate" /\ pc = "exited" /\ exitCode = 0
    /\ "guidance_error" \in console /\ "guidance_text" \notin console
    /\ Len(AnswerSequence) > Len(HEARING_TEST_FREQUENCIES)
    /\ profile.items = ProfileOf(ReplayAll(AnswerSequence).thresholds)

\* the calibration can take its next step
CalibrationProgress ==
    \/ GuideCalibrationStart
    \/ PressEnter
    \/ NextFrequency
    \/ PlayTone
    \/ Respond
    \/ RecordThreshold
    \/ ForgeProfile
    \/ WriteProfile
    \/ ExplainResults

GuidanceShown == console \cap {"guidance_text", "guidance_error"} # {}

\* every frequency of the list has its threshold
AllSwept ==
    /\ Len(hearing_thresholds) = Len(HEARING_TEST_FREQUENCIES)
    /\ \A f \in Frequencies : Recorded(f)

\* C13: a failure of the guidance service comes back from get_response as an
\* error string that is shown in place of the guidance; it never ends the
\* calibration: the run goes on past the call, ends only by the listener's
\* interrupt or after the last step, and when it ends after the last step
\* every frequency has been swept and the profile document is written.
C13_GuidanceFailureTolerated ==
    mode = "calibrate" =>
        /\ pc # "main" => GuidanceShown
        /\ pc # "exited" => ENABLED CalibrationProgress
        /\ pc = "exited" =>
              \/ exitCode = 130 /\ writes = 0
              \/ /\ exitCode = 0
                 /\ AllSwept
                 /\ writes = 1
                 /\ doc = Document(BuildProfile(hearing_thresholds))

\* a run whose guidance failed at the start and at the end, finished with
\* seven thresholds and the document written
C13_Witness ==
    /\ mode = "calibrate" /\ pc = "exited" /\ exitCode = 0
    /\ "guidance_error" \in console /\ "guidance_text" \notin console
    /\ AllSwept /\ writes = 1 /\ doc.exists /\ Len(doc.items) = 7

\* the frequencies and gains of the profile the session has loaded
ProfileFreq(i) == ParseFloat(profile.items[i][1])

ProfileGainDb(i) == profile.items[i][2]

\* the frequency of bin k is below, or above, the i-th profile frequency;
\* bin k lies at k * SAMPLE_RATE / BLOCK_SIZE Hz
BinBelow(k, i) == k * SAMPLE_RATE < ProfileFreq(i) * BLOCK_SIZE

BinAbove(k, i) == k * SAMPLE_RATE > ProfileFreq(i) * BLOCK_SIZE

\* the gain of bin k, in dB, is g
BinGainIs(k, g) == gains[k][1] = g * gains[k][2]

\* the curve of the session is prepared
CurvePrepared == mode = "run" /\ pc = "prepared"

\* C14: in the curve prepared from a loaded profile document, every bin below
\* the lowest profile frequency has the gain of the lowest profile frequency,
\* and every bin above the highest profile frequency has the gain of the
\* highest one.
C14_EndpointsHeld ==
    CurvePrepared =>
        LET idx == 1..Len(profile.items)
            lo == CHOOSE i \in idx : \A j \in idx : ProfileFreq(i) <= ProfileFreq(j)
            hi == CHOOSE i \in idx : \A j \in idx : ProfileFreq(i) >= ProfileFreq(j)
        IN  \A k \in Bins :
                /\ BinBelow(k, lo) => BinGainIs(k, ProfileGainDb(lo))
                /\ BinAbove(k, hi) => BinGainIs(k, ProfileGainDb(hi))

\* the gain of bin k, in dB, is below g, or above g; the gain is the fraction
\* gains[k][1] / gains[k][2]
BinGainBelow(k, g) ==
    IF gains[k][2] > 0 THEN gains[k][1] < g * gains[k][2]
    ELSE gains[k][1] > g * gains[k][2]

BinGainAbove(k, g) ==
    IF gains[k][2] > 0 THEN gains[k][1] > g * gains[k][2]
    ELSE gains[k][1] < g * gains[k][2]

\* the i-th and j-th profile points are neighbours on the frequency axis
NeighbourPoints(i, j) ==
    /\ ProfileFreq(i) < ProfileFreq(j)
    /\ \A m \in 1..Len(profile.items) :
          ~(ProfileFreq(i) < ProfileFreq(m) /\ ProfileFreq(m) < ProfileFreq(j))

\* C15: for two neighbouring profile points (f1, g1) and (f2, g2) with
\* f1 < f2, every bin whose frequency lies strictly between f1 and f2 has a
\* gain in dB strictly between g1 and g2, and equal to them when g1 = g2.
C15_BetweenNeighbours ==
    CurvePrepared =>
        \A i, j \in 1..Len(profile.items) :
            NeighbourPoints(i, j) =>
                LET g1 == ProfileGainDb(i)
                    g2 == ProfileGainDb(j)
                IN  \A k \in Bins :
                        (BinAbove(k, i) /\ BinBelow(k, j)) =>
                            IF g1 = g2 THEN BinGainIs(k, g1)
                            ELSE /\ BinGainAbove(k, PyMin(g1, g2))
                                 /\ BinGainBelow(k, PyMax(g1, g2))

-----------------------------------------------------------------------------
(* Properties of the calibration: order, records, document, termination *)

\* frequency g comes right after frequency f in the list
NextInList(f, g) ==
    \E k \in 1..(Len(HEARING_TEST_FREQUENCIES) - 1) :
        /\ HEARING_TEST_FREQUENCIES[k] = f
        /\ HEARING_TEST_FREQUENCIES[k + 1] = g

\* C16: tones and answers alternate, every answer is the answer to the tone
\* played just before it, and no tone is played before the answer to the last
\* one is in. The first tone is the first frequency of the list at -60 dB;
\* every later tone is either the same frequency 5 dB louder, after an answer
\* that was not heard, or the next frequency of the list at -60 dB again.
C16_SweepOrder ==
    LET n == Len(transcript)
    IN  /\ \A i \in 1..n :
              LET e == transcript[i]
              IN  IF i % 2 = 1
                  THEN /\ e.kind = "tone"
                       /\ i = 1 => /\ e.freq = HEARING_TEST_FREQUENCIES[1]
                                   /\ e.db = AMP_START_DB
                       /\ i > 1 =>
                             LET last == transcript[i - 1]
                             IN  \/ /\ e.freq = last.freq
                                    /\ e.db = last.db + AMP_STEP_DB
                                    /\ ~last.heard
                                 \/ /\ NextInList(last.freq, e.freq)
                                    /\ e.db = AMP_START_DB
                       /\ e.db \in AMP_START_DB..(AMP_STOP_DB - 1)
                  ELSE /\ e.kind = "response"
                       /\ e.freq = transcript[i - 1].freq
                       /\ e.db = transcript[i - 1].db
        /\ pc = "ask" => n % 2 = 1
        /\ pc = "play" => n % 2 = 0
        /\ (pc = "ask" /\ n > 0) =>
              /\ transcript[n].freq = freq
              /\ transcript[n].db = amplitude_db

\* a finished run in which all seven frequencies were swept, 4000 Hz through
\* all its levels
C16_Witness ==
    /\ mode = "calibrate" /\ pc = "exited" /\ exitCode = 0
    /\ Len(AnswersOf(4000)) = SweepSteps
    /\ transcript[Len(transcript)].freq = 8000
    /\ transcript[Len(transcript)].db = AMP_START_DB
    /\ Len(TonesPlayed) = SweepSteps + Len(HEARING_TEST_FREQUENCIES) - 1

\* the keys of a mapping are pairwise different
UniqueKeys(d) == \A i, j \in 1..Len(d) : d[i][1] = d[j][1] => i = j

\* the calibration has swept every frequency and was not interrupted
SweepsDone ==
    /\ mode = "calibrate"
    /\ \/ pc \in {"forge", "write", "explain"}
       \/ pc = "exited" /\ exitCode = 0

C17_State ==
    mode = "calibrate" =>
        /\ UniqueKeys(hearing_thresholds)
        /\ Len(hearing_thresholds) <= Len(HEARING_TEST_FREQUENCIES)
        /\ \A i \in 1..Len(hearing_thresholds) :
              hearing_thresholds[i][1] = HEARING_TEST_FREQUENCIES[i]
        /\ pc \in {"play", "ask", "record"} =>
              /\ ~Recorded(freq)
              /\ Len(hearing_thresholds) = fi - 1
        /\ pc = "next_freq" => Len(hearing_thresholds) = fi - 1
        /\ SweepsDone => AllSwept
        /\ ProfileBuilt =>
              /\ UniqueKeys(profile.items)
              /\ Len(profile.items) = Len(HEARING_TEST_FREQUENCIES)
              /\ \A i \in 1..Len(profile.items) :
                    profile.items[i][1] = Str(HEARING_TEST_FREQUENCIES[i])

C17_Step ==
    /\ \A i \in 1..Len(hearing_thresholds) :
          /\ i <= Len(hearing_thresholds')
          /\ hearing_thresholds'[i] = hearing_thresholds[i]
    /\ hearing_thresholds' # hearing_thresholds =>
          /\ pc = "record" /\ pc' = "next_freq"
          /\ Len(hearing_thresholds') = Len(hearing_thresholds) + 1
          /\ hearing_thresholds'[Len(hearing_thresholds')][1] = freq
          /\ transcript # <<>>
          /\ transcript[Len(transcript)].kind = "response"
          /\ transcript[Len(transcript)].freq = freq
          /\ SweepEnds(transcript[Len(transcript)].heard,
                       transcript[Len(transcript)].db)
    /\ (mode = "calibrate" /\ profile' # profile) => pc = "forge"

\* C17: the threshold of a frequency is recorded once, in the step that
\* follows the last answer of its sweep, and no later step changes or removes
\* it; when the sweeps are done the thresholds, and then the profile, have one
\* entry for each frequency of the list, under keys that are all different.
C17_RecordedOnce == []C17_State /\ [][C17_Step]_vars

\* a finished run whose thresholds are not all the same
C17_Witness ==
    /\ mode = "calibrate" /\ pc = "exited" /\ exitCode = 0
    /\ AllSwept /\ ProfileBuilt
    /\ Threshold(250) = -25
    /\ Threshold(8000) = AMP_START_DB
    /\ Len(profile.items) = Len(HEARING_TEST_FREQUENCIES)

C18_State ==
    /\ writes <= 1
    /\ mode = "calibrate" =>
          /\ reads = 0
          /\ writes = 1 <=> (pc = "explain" \/ (pc = "exited" /\ exitCode = 0))
          /\ writes = 1 =>
                /\ AllSwept
                /\ doc = Document(BuildProfile(hearing_thresholds))
    /\ mode = "run" =>
          /\ writes = 0
          /\ reads = IF pc = "main" THEN 0 ELSE 1

C18_Step ==
    /\ (doc' # doc \/ writes' # writes) =>
          /\ mode = "calibrate"
          /\ pc = "write" /\ pc' = "explain"
          /\ AllSwept
          /\ writes = 0 /\ writes' = 1
          /\ doc' = Document(profile.items)
    /\ reads' # reads =>
          /\ mode = "run"
          /\ pc = "main"
          /\ reads = 0 /\ reads' = 1
    /\ (mode = "run" /\ profile' # profile) =>
          /\ reads' # reads
          /\ profile' = DictProfile(doc.items)

\* C18: a calibration writes the document once, in the step after the last
\* sweep and the building of the profile, and a calibration that ends before
\* that leaves the document on disk as it found it; a run session opens the
\* document for reading once, as its first step, and never writes it.
C18_WriteOnceReadOnce == []C18_State /\ [][C18_Step]_vars

\* a calibration that was interrupted in its last sweep and left the older
\* document in place
C18_Witness ==
    /\ mode = "calibrate" /\ pc = "exited" /\ exitCode = 130
    /\ Len(hearing_thresholds) = Len(HEARING_TEST_FREQUENCIES) - 1
    /\ writes = 0 /\ doc = ScenarioProfile

\* the calibration where every tone played is answered in the end and the
\* interpreter goes on from each statement to the next
FairSpec == Spec /\ WF_vars(CalibrationProgress)

\* the profile is built and written
ProfileWritten == ProfileBuilt /\ writes = 1 /\ doc = Document(profile.items)

\* the listener has interrupted the calibration
Interrupted == mode = "calibrate" /\ pc = "exited" /\ exitCode = 130

C19_State ==
    mode = "calibrate" =>
        /\ SweepSteps = 13
        /\ \A f \in Frequencies : Len(AnswersOf(f)) <= SweepSteps
        /\ steps = Len(AnswerSequence)
        /\ steps <= SweepSteps * Len(HEARING_TEST_FREQUENCIES)
        /\ steps <= 91
        /\ pc # "exited" => ENABLED CalibrationProgress

\* C19: a calibration takes at most 13 tone and answer steps for a frequency
\* and at most 91 in all, and, unless the listener interrupts it instead of
\* answering, it reaches the state where the profile is built and written.
C19_CalibrationTerminates ==
    /\ []C19_State
    /\ (mode = "calibrate") ~> (ProfileWritten \/ Interrupted)

\* the profile is written after a run in which one frequency took all 13
\* steps
C19_Witness ==
    /\ ProfileWritten
    /\ \E f \in Frequencies : Len(AnswersOf(f)) = 13
    /\ steps = 13 + Len(HEARING_TEST_FREQUENCIES) - 1

====
